---- MODULE Spec2Model ----
(***************************************************************************)
(* darca-git: the Git facade of src/darca_git/git.py.                      *)
(*                                                                         *)
(* Every public method of class Git is a pure function of the instance,    *)
(* its arguments and the outcomes the executor gives to the invocations it *)
(* issues.  A method is modelled by an operator of the same name which     *)
(* yields the record                                                       *)
(*    [self, calls, ret, exc, log]                                         *)
(* self  : the instance after the call                                     *)
(* calls : the executor invocations issued, in order, each with the        *)
(*         outcome the executor gave it                                    *)
(* ret   : the value returned (None when the call raised)                  *)
(* exc   : the exception that reaches the caller, NoExc when none          *)
(* log   : the severities of the log records emitted, in order             *)
(* One action per public method applies it to inputs drawn from small sets *)
(* and publishes the record in the variables.                              *)
(***************************************************************************)
EXTENDS Integers, Sequences, FiniteSets, TLC

VARIABLES self, last, calls, ret, raised, log, caller_paths, ncalls

vars == <<self, last, calls, ret, raised, log, caller_paths, ncalls>>

\* ---- bounds ----
MaxPaths == 2
MaxCalls == 2

\* ---- Python values ----
None == [tag |-> "None"]
Str(s) == [tag |-> "str", val |-> s]
List(l) == [tag |-> "list", val |-> l]

\* isinstance(x, str)
isinstance_str(x) == x.tag = "str"

\* truth value of an Optional[str]: None and "" are false
Truthy(x) == x.tag = "str" /\ x.val # ""

NoExc == [type |-> "NoExc"]

\* ---- inputs ----
Cwds == {"/fake/repo", "/other/repo"}
RepoUrls == {"https://repo.url"}
RemoteUrls == {None, Str(""), Str("https://origin.url")}
PathNames == {"file1", "file2"}
Messages == {"message"}
Branches == {"dev", "main"}
Stdouts == {" M README.md", ""}
ErrMsgs == {"mock failure", "exit 128"}
Bools == {TRUE, FALSE}

PathLists == UNION {[1..n -> PathNames] : n \in 0..MaxPaths}
PathsInputs == {Str(p) : p \in PathNames} \cup {List(l) : l \in PathLists}

\* what the executor raises on a non-zero exit or a launch failure
DarcaExecError(m) == [type |-> "DarcaExecError", message |-> m]

\* the outcomes of executor.run: a result with captured stdout, or a raise
Outcomes ==
  {[ok |-> TRUE, stdout |-> s] : s \in Stdouts}
    \cup {[ok |-> FALSE, err |-> DarcaExecError(m)] : m \in ErrMsgs}

\* ---- class GitException ----
GitException(message, error_code, metadata, cause) ==
  [type |-> "GitException",
   message |-> message,
   error_code |-> IF Truthy(error_code) THEN error_code.val ELSE "GIT_ERROR",
   metadata |-> metadata,
   cause |-> cause]

\* ---- class Git ----
Git__init__ == [executor |-> [use_shell |-> FALSE]]

\* faulty variants of _run: the raw failure escapes; the metadata holds the
\* vector with "git"; the instance remembers the first cwd and reuses it
_run_raw(slf, args, cwd, error_code, out) ==
  LET inv == [argv |-> <<"git">> \o args, cwd |-> cwd,
              use_shell |-> slf.executor.use_shell, out |-> out]
  IN IF out.ok
     THEN [self |-> slf, calls |-> <<inv>>, ret |-> Str(out.stdout),
           exc |-> NoExc, log |-> <<"debug">>]
     ELSE [self |-> slf, calls |-> <<inv>>, ret |-> None,
           exc |-> out.err, log |-> <<"debug", "error">>]

_run_fullargv(slf, args, cwd, error_code, out) ==
  LET inv == [argv |-> <<"git">> \o args, cwd |-> cwd,
              use_shell |-> slf.executor.use_shell, out |-> out]
  IN IF out.ok
     THEN [self |-> slf, calls |-> <<inv>>, ret |-> Str(out.stdout),
           exc |-> NoExc, log |-> <<"debug">>]
     ELSE [self |-> slf, calls |-> <<inv>>, ret |-> None,
           exc |-> GitException("Git command failed.", Str(error_code),
                                [args |-> <<"git">> \o args, cwd |-> cwd],
                                out.err),
           log |-> <<"debug", "error">>]

_run_sticky(slf, args, cwd, error_code, out) ==
  LET dir == IF "cwd" \in DOMAIN slf.executor THEN slf.executor.cwd ELSE cwd
      inv == [argv |-> <<"git">> \o args, cwd |-> dir,
              use_shell |-> slf.executor.use_shell, out |-> out]
      slf2 == [executor |-> [use_shell |-> slf.executor.use_shell,
                             cwd |-> dir]]
  IN IF out.ok
     THEN [self |-> slf2, calls |-> <<inv>>, ret |-> Str(out.stdout),
           exc |-> NoExc, log |-> <<"debug">>]
     ELSE [self |-> slf2, calls |-> <<inv>>, ret |-> None,
           exc |-> GitException("Git command failed.", Str(error_code),
                                [args |-> args, cwd |-> cwd], out.err),
           log |-> <<"debug", "error">>]

\* Git._run: one executor invocation, ["git"] + args in cwd; a DarcaExecError
\* is translated to a GitException carrying args, cwd and the cause
_run(slf, args, cwd, error_code, out) ==
  LET inv == [argv |-> <<"git">> \o args, cwd |-> cwd,
              use_shell |-> slf.executor.use_shell, out |-> out]
  IN IF out.ok
     THEN [self |-> slf, calls |-> <<inv>>, ret |-> Str(out.stdout),
           exc |-> NoExc, log |-> <<"debug">>]
     ELSE [self |-> slf, calls |-> <<inv>>, ret |-> None,
           exc |-> GitException("Git command failed.", Str(error_code),
                                [args |-> args, cwd |-> cwd], out.err),
           log |-> <<"debug", "error">>]

\* Git._checkout: the result of _run is dropped
_checkout(slf, args, cwd, error_code, out) ==
  [_run(slf, <<"checkout">> \o args, cwd, error_code, out)
     EXCEPT !.ret = None]

init(slf, cwd, out) ==
  LET r == _run(slf, <<"init">>, cwd, "GIT_INIT_FAILED", out)
  IN [r EXCEPT !.ret = None, !.log = <<"info">> \o @]

clone(slf, repo_url, cwd, out) ==
  LET r == _run(slf, <<"clone", repo_url, ".">>, cwd, "GIT_CLONE_FAILED", out)
  IN [r EXCEPT !.ret = None, !.log = <<"info">> \o @]

\* faulty variant of status: the output is stripped
status_stripped(slf, cwd, porcelain, out) ==
  LET args == IF porcelain THEN <<"status", "--porcelain">> ELSE <<"status">>
      r == _run(slf, args, cwd, "GIT_STATUS_FAILED", out)
  IN [r EXCEPT !.log = <<"debug">> \o @,
               !.ret = IF @ = Str(" M README.md") THEN Str("M README.md")
                       ELSE @]

status(slf, cwd, porcelain, out) ==
  LET args == IF porcelain THEN <<"status", "--porcelain">> ELSE <<"status">>
      r == _run(slf, args, cwd, "GIT_STATUS_FAILED", out)
  IN [r EXCEPT !.log = <<"debug">> \o @]

add(slf, path, cwd, out) ==
  LET r == _run(slf, <<"add", path>>, cwd, "GIT_ADD_FAILED", out)
  IN [r EXCEPT !.ret = None, !.log = <<"debug">> \o @]

\* faulty variant of commit: no error code is passed on
commit_generic(slf, message, cwd, out) ==
  LET r == _run(slf, <<"commit", "-m", message>>, cwd, "", out)
  IN [r EXCEPT !.ret = None, !.log = <<"info">> \o @]

commit(slf, message, cwd, out) ==
  LET r == _run(slf, <<"commit", "-m", message>>, cwd,
                "GIT_COMMIT_FAILED", out)
  IN [r EXCEPT !.ret = None, !.log = <<"info">> \o @]

pull(slf, cwd, out) ==
  LET r == _run(slf, <<"pull">>, cwd, "GIT_PULL_FAILED", out)
  IN [r EXCEPT !.ret = None, !.log = <<"info">> \o @]

\* faulty variants of push_set_origin: the two steps in the wrong order; a
\* failure of the remove step is ignored
push_set_origin_swapped(slf, cwd, url, outs) ==
  LET r1 == _run(slf, <<"remote", "add", "origin", url>>, cwd,
                 "GIT_REMOTE_ADD_FAILED", outs[1])
  IN IF r1.exc # NoExc
     THEN [r1 EXCEPT !.ret = None, !.log = <<"info">> \o @]
     ELSE LET r2 == _run(r1.self, <<"remote", "remove", "origin">>, cwd,
                         "GIT_REMOTE_REMOVE_FAILED", outs[2])
          IN [self |-> r2.self, calls |-> r1.calls \o r2.calls, ret |-> None,
              exc |-> r2.exc, log |-> <<"info">> \o r1.log \o r2.log]

push_set_origin_lenient(slf, cwd, url, outs) ==
  LET r1 == _run(slf, <<"remote", "remove", "origin">>, cwd,
                 "GIT_REMOTE_REMOVE_FAILED", outs[1])
      r2 == _run(r1.self, <<"remote", "add", "origin", url>>, cwd,
                 "GIT_REMOTE_ADD_FAILED", outs[2])
  IN [self |-> r2.self, calls |-> r1.calls \o r2.calls, ret |-> None,
      exc |-> r2.exc, log |-> <<"info">> \o r1.log \o r2.log]

\* the body of "if remote_url:" in Git.push: origin is removed, then added
\* again with the given URL; a failing step raises and ends the block
push_set_origin(slf, cwd, url, outs) ==
  LET r1 == _run(slf, <<"remote", "remove", "origin">>, cwd,
                 "GIT_REMOTE_REMOVE_FAILED", outs[1])
  IN IF r1.exc # NoExc
     THEN [r1 EXCEPT !.ret = None, !.log = <<"info">> \o @]
     ELSE LET r2 == _run(r1.self, <<"remote", "add", "origin", url>>, cwd,
                         "GIT_REMOTE_ADD_FAILED", outs[2])
          IN [self |-> r2.self, calls |-> r1.calls \o r2.calls, ret |-> None,
              exc |-> r2.exc, log |-> <<"info">> \o r1.log \o r2.log]

\* a block that issues nothing
pass(slf) ==
  [self |-> slf, calls |-> <<>>, ret |-> None, exc |-> NoExc, log |-> <<>>]

\* faulty variant of push: the override is tested with "is not None"
push_not_none(slf, cwd, remote_url, outs) ==
  LET pre == IF remote_url # None
             THEN push_set_origin(slf, cwd, remote_url.val, outs)
             ELSE pass(slf)
  IN IF pre.exc # NoExc
     THEN [pre EXCEPT !.log = <<"info">> \o @]
     ELSE LET r3 == _run(pre.self, <<"push", "-u", "origin", "HEAD">>, cwd,
                         "GIT_PUSH_FAILED", outs[Len(pre.calls) + 1])
          IN [self |-> r3.self, calls |-> pre.calls \o r3.calls, ret |-> None,
              exc |-> r3.exc, log |-> <<"info">> \o pre.log \o r3.log]

\* Git.push: the k-th invocation issued gets the executor's k-th outcome
push(slf, cwd, remote_url, outs) ==
  LET pre == IF Truthy(remote_url)
             THEN push_set_origin(slf, cwd, remote_url.val, outs)
             ELSE pass(slf)
  IN IF pre.exc # NoExc
     THEN [pre EXCEPT !.log = <<"info">> \o @]
     ELSE LET r3 == _run(pre.self, <<"push", "-u", "origin", "HEAD">>, cwd,
                         "GIT_PUSH_FAILED", outs[Len(pre.calls) + 1])
          IN [self |-> r3.self, calls |-> pre.calls \o r3.calls, ret |-> None,
              exc |-> r3.exc, log |-> <<"info">> \o pre.log \o r3.log]

\* faulty variant of checkout_branch: the create flag is inverted
checkout_branch_swapped(slf, cwd, branch, create, out) ==
  LET args == IF create THEN <<branch>> ELSE <<"-b", branch>>
      r == _checkout(slf, args, cwd, "GIT_CHECKOUT_BRANCH_FAILED", out)
  IN [r EXCEPT !.log = <<"info">> \o @]

checkout_branch(slf, cwd, branch, create, out) ==
  LET args == IF create THEN <<"-b", branch>> ELSE <<branch>>
      r == _checkout(slf, args, cwd, "GIT_CHECKOUT_BRANCH_FAILED", out)
  IN [r EXCEPT !.log = <<"info">> \o @]

\* faulty variant of paths_as_list: a list is reversed
paths_reversed(paths) ==
  IF isinstance_str(paths) THEN <<paths.val>>
  ELSE [i \in 1..Len(paths.val) |-> paths.val[Len(paths.val) + 1 - i]]

\* "if isinstance(paths, str): paths = [paths]": the local name is rebound
paths_as_list(paths) ==
  IF isinstance_str(paths) THEN <<paths.val>> ELSE paths.val

\* the field paths is the caller's object after the call
checkout_path(slf, cwd, paths, out) ==
  LET r == _checkout(slf, <<"--">> \o paths_as_list(paths), cwd,
                     "GIT_CHECKOUT_PATH_FAILED", out)
  IN [self |-> r.self, calls |-> r.calls, ret |-> r.ret, exc |-> r.exc,
      log |-> <<"info">> \o r.log, paths |-> paths]

checkout_path_from_branch(slf, cwd, branch, paths, out) ==
  LET r == _checkout(slf, <<branch, "--">> \o paths_as_list(paths), cwd,
                     "GIT_CHECKOUT_PATH_FROM_BRANCH_FAILED", out)
  IN [self |-> r.self, calls |-> r.calls, ret |-> r.ret, exc |-> r.exc,
      log |-> <<"info">> \o r.log, paths |-> paths]

\* ---- the state machine: a caller using one Git instance ----
NoCall == [op |-> "none"]

Init ==
  /\ self = Git__init__
  /\ last = NoCall
  /\ calls = <<>>
  /\ ret = None
  /\ raised = NoExc
  /\ log = <<>>
  /\ caller_paths = None
  /\ ncalls = 0

\* the caller observes the outcome of a call
Returns(call, r, obj) ==
  /\ ncalls < MaxCalls
  /\ ncalls' = ncalls + 1
  /\ last' = call
  /\ self' = r.self
  /\ calls' = r.calls
  /\ ret' = r.ret
  /\ raised' = r.exc
  /\ log' = r.log
  /\ caller_paths' = obj

DoInit ==
  \E cwd \in Cwds, out \in Outcomes :
    Returns([op |-> "init", cwd |-> cwd, outs |-> <<out>>],
            init(self, cwd, out), None)

DoClone ==
  \E repo_url \in RepoUrls, cwd \in Cwds, out \in Outcomes :
    Returns([op |-> "clone", cwd |-> cwd, repo_url |-> repo_url,
             outs |-> <<out>>],
            clone(self, repo_url, cwd, out), None)

DoStatus ==
  \E cwd \in Cwds, porcelain \in Bools, out \in Outcomes :
    Returns([op |-> "status", cwd |-> cwd, porcelain |-> porcelain,
             outs |-> <<out>>],
            status(self, cwd, porcelain, out), None)

DoAdd ==
  \E path \in PathNames, cwd \in Cwds, out \in Outcomes :
    Returns([op |-> "add", cwd |-> cwd, path |-> path, outs |-> <<out>>],
            add(self, path, cwd, out), None)

DoCommit ==
  \E message \in Messages, cwd \in Cwds, out \in Outcomes :
    Returns([op |-> "commit", cwd |-> cwd, message |-> message,
             outs |-> <<out>>],
            commit(self, message, cwd, out), None)

DoPull ==
  \E cwd \in Cwds, out \in Outcomes :
    Returns([op |-> "pull", cwd |-> cwd, outs |-> <<out>>],
            pull(self, cwd, out), None)

DoPush ==
  \E cwd \in Cwds, remote_url \in RemoteUrls, outs \in [1..3 -> Outcomes] :
    Returns([op |-> "push", cwd |-> cwd, remote_url |-> remote_url,
             outs |-> outs],
            push(self, cwd, remote_url, outs), None)

DoCheckoutBranch ==
  \E cwd \in Cwds, branch \in Branches, create \in Bools, out \in Outcomes :
    Returns([op |-> "checkout_branch", cwd |-> cwd, branch |-> branch,
             create |-> create, outs |-> <<out>>],
            checkout_branch(self, cwd, branch, create, out), None)

DoCheckoutPath ==
  \E cwd \in Cwds, paths \in PathsInputs, out \in Outcomes :
    LET r == checkout_path(self, cwd, paths, out)
    IN Returns([op |-> "checkout_path", cwd |-> cwd, paths |-> paths,
                outs |-> <<out>>], r, r.paths)

DoCheckoutPathFromBranch ==
  \E cwd \in Cwds, branch \in Branches, paths \in PathsInputs,
     out \in Outcomes :
    LET r == checkout_path_from_branch(self, cwd, branch, paths, out)
    IN Returns([op |-> "checkout_path_from_branch", cwd |-> cwd,
                branch |-> branch, paths |-> paths, outs |-> <<out>>],
               r, r.paths)

Next ==
  \/ DoInit
  \/ DoClone
  \/ DoStatus
  \/ DoAdd
  \/ DoCommit
  \/ DoPull
  \/ DoPush
  \/ DoCheckoutBranch
  \/ DoCheckoutPath
  \/ DoCheckoutPathFromBranch

Spec == Init /\ [][Next]_vars

\* ---- observations on the last call ----
Done == last.op # "none"
Failed == raised # NoExc
NCallsIssued == Len(calls)
Argvs == [i \in 1..Len(calls) |-> calls[i].argv]
FailedIdx == {i \in 1..Len(calls) : ~calls[i].out.ok}
PathOps == {"checkout_path", "checkout_path_from_branch"}

\* the same call made on an instance slf
Apply(slf, call) ==
  CASE call.op = "init" -> init(slf, call.cwd, call.outs[1])
    [] call.op = "clone" -> clone(slf, call.repo_url, call.cwd, call.outs[1])
    [] call.op = "status" ->
         status(slf, call.cwd, call.porcelain, call.outs[1])
    [] call.op = "add" -> add(slf, call.path, call.cwd, call.outs[1])
    [] call.op = "commit" -> commit(slf, call.message, call.cwd, call.outs[1])
    [] call.op = "pull" -> pull(slf, call.cwd, call.outs[1])
    [] call.op = "push" -> push(slf, call.cwd, call.remote_url, call.outs)
    [] call.op = "checkout_branch" ->
         checkout_branch(slf, call.cwd, call.branch, call.create, call.outs[1])
    [] call.op = "checkout_path" ->
         checkout_path(slf, call.cwd, call.paths, call.outs[1])
    [] call.op = "checkout_path_from_branch" ->
         checkout_path_from_branch(slf, call.cwd, call.branch, call.paths,
                                   call.outs[1])

\* ---- the operation catalog as the specification states it ----
GivenPaths(paths) == IF paths.tag = "str" THEN <<paths.val>> ELSE paths.val

CatalogArgs(call) ==
  CASE call.op = "init" -> <<"init">>
    [] call.op = "clone" -> <<"clone", call.repo_url, ".">>
    [] call.op = "status" ->
         IF call.porcelain THEN <<"status", "--porcelain">> ELSE <<"status">>
    [] call.op = "add" -> <<"add", call.path>>
    [] call.op = "commit" -> <<"commit", "-m", call.message>>
    [] call.op = "pull" -> <<"pull">>
    [] call.op = "checkout_branch" ->
         IF call.create THEN <<"checkout", "-b", call.branch>>
         ELSE <<"checkout", call.branch>>
    [] call.op = "checkout_path" ->
         <<"checkout", "--">> \o GivenPaths(call.paths)
    [] call.op = "checkout_path_from_branch" ->
         <<"checkout", call.branch, "--">> \o GivenPaths(call.paths)

RemoteRemoveArgs == <<"remote", "remove", "origin">>
RemoteAddArgs(url) == <<"remote", "add", "origin", url>>
PushArgs == <<"push", "-u", "origin", "HEAD">>

PushStepArgs(k, url) ==
  CASE k = 1 -> RemoteRemoveArgs
    [] k = 2 -> RemoteAddArgs(url)
    [] k = 3 -> PushArgs

\* the error tags as the specification's table names them
SpecTag(op) ==
  CASE op = "init" -> "INIT_FAILED"
    [] op = "clone" -> "CLONE_FAILED"
    [] op = "status" -> "STATUS_FAILED"
    [] op = "add" -> "ADD_FAILED"
    [] op = "commit" -> "COMMIT_FAILED"
    [] op = "pull" -> "PULL_FAILED"
    [] op = "push" -> "PUSH_FAILED"
    [] op = "checkout_branch" -> "CHECKOUT_BRANCH_FAILED"
    [] op = "checkout_path" -> "CHECKOUT_PATH_FAILED"
    [] op = "checkout_path_from_branch" -> "CHECKOUT_PATH_FROM_BRANCH_FAILED"

SpecStepTag(k) ==
  CASE k = 1 -> "REMOTE_REMOVE_FAILED"
    [] k = 2 -> "REMOTE_ADD_FAILED"
    [] k = 3 -> "PUSH_FAILED"

\* the same tags with the prefix GIT_
PrefixedTag(op) ==
  CASE op = "init" -> "GIT_INIT_FAILED"
    [] op = "clone" -> "GIT_CLONE_FAILED"
    [] op = "status" -> "GIT_STATUS_FAILED"
    [] op = "add" -> "GIT_ADD_FAILED"
    [] op = "commit" -> "GIT_COMMIT_FAILED"
    [] op = "pull" -> "GIT_PULL_FAILED"
    [] op = "push" -> "GIT_PUSH_FAILED"
    [] op = "checkout_branch" -> "GIT_CHECKOUT_BRANCH_FAILED"
    [] op = "checkout_path" -> "GIT_CHECKOUT_PATH_FAILED"
    [] op = "checkout_path_from_branch" ->
         "GIT_CHECKOUT_PATH_FROM_BRANCH_FAILED"

PrefixedStepTag(k) ==
  CASE k = 1 -> "GIT_REMOTE_REMOVE_FAILED"
    [] k = 2 -> "GIT_REMOTE_ADD_FAILED"
    [] k = 3 -> "GIT_PUSH_FAILED"

\* the last invocation issued is the operation's own step (for push: the
\* push step, not the remote management before it)
OwnStepFailed ==
  /\ Failed
  /\ last.op = "push" => Tail(calls[Len(calls)].argv) = PushArgs

\* the first outcome of a push script that is a failure, 0 when none
FirstFailure(outs) ==
  IF \E k \in 1..3 : ~outs[k].ok
  THEN CHOOSE k \in 1..3 : ~outs[k].ok /\ \A j \in 1..(k - 1) : outs[j].ok
  ELSE 0

\* ---- C1 ----
\* C1: every invocation handed to the executor is "git" followed by exactly
\* the argument vector of the operation catalog, in the caller's cwd; an
\* invocation of push is "git" followed by one of its three step vectors.
C1_ArgvIsCatalog ==
  Done =>
    /\ \A i \in 1..Len(calls) :
         /\ calls[i].cwd = last.cwd
         /\ Head(calls[i].argv) = "git"
    /\ last.op # "push" => Argvs = << <<"git">> \o CatalogArgs(last) >>
    /\ last.op = "push" =>
         \A i \in 1..Len(calls) :
           \/ Tail(calls[i].argv) = PushArgs
           \/ /\ last.remote_url.tag = "str"
              /\ Tail(calls[i].argv) \in
                   {RemoteRemoveArgs, RemoteAddArgs(last.remote_url.val)}

C1_Witness ==
  /\ last.op = "checkout_branch"
  /\ last.create
  /\ last.branch = "dev"
  /\ last.cwd = "/fake/repo"
  /\ Argvs = << <<"git", "checkout", "-b", "dev">> >>
  /\ calls[1].cwd = "/fake/repo"

\* ---- C2 ----
\* C2 as stated: when the operation's own invocation fails, the error raised
\* carries the tag INIT_FAILED, CLONE_FAILED, ..., PUSH_FAILED, ...
C2_TagsAsStated ==
  OwnStepFailed => raised.error_code = SpecTag(last.op)

\* C2 amended: when the operation's own invocation fails, the error raised
\* carries the tag of the table with the prefix GIT_: GIT_INIT_FAILED,
\* GIT_CLONE_FAILED, ..., GIT_CHECKOUT_PATH_FROM_BRANCH_FAILED.
C2_TagsPrefixed ==
  OwnStepFailed =>
    /\ raised.type = "GitException"
    /\ raised.error_code = PrefixedTag(last.op)

C2_Witness ==
  /\ last.op = "commit"
  /\ Failed
  /\ raised.error_code = "GIT_COMMIT_FAILED"
  /\ raised.cause = DarcaExecError("mock failure")

\* ---- C3 ----
\* C3 as stated: the metadata of the error raised by _run holds the exact
\* argument vector of the failing executor invocation and its working
\* directory, and the cause is the failure the executor raised for it.
C3_MetadataIsArgv ==
  Failed =>
    /\ raised.metadata.args = calls[Len(calls)].argv
    /\ raised.metadata.cwd = calls[Len(calls)].cwd
    /\ raised.cause = calls[Len(calls)].out.err

\* C3 amended: the metadata holds the argument vector of the failing executor
\* invocation without its leading program name "git", and the working
\* directory used; the cause is the failure the executor raised for it.
C3_MetadataIsArgs ==
  Failed =>
    /\ raised.type = "GitException"
    /\ ~calls[Len(calls)].out.ok
    /\ <<"git">> \o raised.metadata.args = calls[Len(calls)].argv
    /\ raised.metadata.cwd = calls[Len(calls)].cwd
    /\ raised.cause = calls[Len(calls)].out.err

C3_Witness ==
  /\ last.op = "push"
  /\ Len(calls) = 2
  /\ calls[1].out.ok
  /\ Failed
  /\ raised.metadata =
       [args |-> <<"remote", "add", "origin", "https://origin.url">>,
        cwd |-> "/other/repo"]
  /\ calls[2].argv = <<"git", "remote", "add", "origin", "https://origin.url">>
  /\ raised.cause = DarcaExecError("exit 128")

\* ---- C4 ----
\* C4: a call fails exactly when one of its invocations failed; it then ends
\* with one GitException whose cause is the one DarcaExecError the executor
\* raised, nothing is returned, and a raw DarcaExecError never reaches the
\* caller.
C4_OneStructuredError ==
  Done =>
    /\ Failed <=> FailedIdx # {}
    /\ raised.type # "DarcaExecError"
    /\ Failed =>
         /\ raised.type = "GitException"
         /\ Cardinality(FailedIdx) = 1
         /\ raised.cause.type = "DarcaExecError"
         /\ \A i \in FailedIdx : raised.cause = calls[i].out.err
         /\ ret = None

C4_Witness ==
  /\ last.op = "status"
  /\ FailedIdx = {1}
  /\ raised.type = "GitException"
  /\ raised.cause = DarcaExecError("mock failure")
  /\ ret = None

\* ---- C5 ----
\* C5: a push that succeeds issues, without a remote URL (None), exactly the
\* one invocation push -u origin HEAD, and with a remote URL override (a
\* non-empty URL) exactly remote remove origin, remote add origin url,
\* push -u origin HEAD in this order, all in the given working directory.
C5_PushSequence ==
  (last.op = "push" /\ ~Failed) =>
    /\ \A i \in 1..Len(calls) : calls[i].cwd = last.cwd
    /\ last.remote_url = None => Argvs = << <<"git">> \o PushArgs >>
    /\ Truthy(last.remote_url) =>
         Argvs = << <<"git">> \o RemoteRemoveArgs,
                    <<"git">> \o RemoteAddArgs(last.remote_url.val),
                    <<"git">> \o PushArgs >>

C5_Witness ==
  /\ last.op = "push"
  /\ last.remote_url = Str("https://origin.url")
  /\ ~Failed
  /\ Len(calls) = 3
  /\ calls[1].argv = <<"git", "remote", "remove", "origin">>
  /\ calls[3].argv = <<"git", "push", "-u", "origin", "HEAD">>

\* ---- C6 ----
\* C6 as stated: in push with an override, a failure of step k ends the
\* sequence at k and raises the error of step k tagged REMOTE_REMOVE_FAILED,
\* REMOTE_ADD_FAILED or PUSH_FAILED, with the step's argument vector in its
\* metadata.
C6_AbortTagsAsStated ==
  (last.op = "push" /\ Truthy(last.remote_url)) =>
    LET k == FirstFailure(last.outs)
    IN k # 0 =>
         /\ Len(calls) = k
         /\ Failed
         /\ raised.error_code = SpecStepTag(k)
         /\ raised.metadata.args = PushStepArgs(k, last.remote_url.val)

\* C6 amended: in push with an override, a failure of step k ends the
\* sequence at k (no later step is issued) and raises the error of step k,
\* tagged GIT_REMOTE_REMOVE_FAILED, GIT_REMOTE_ADD_FAILED or GIT_PUSH_FAILED,
\* with the step's argument vector (without "git") in its metadata.
C6_AbortTagsPrefixed ==
  (last.op = "push" /\ Truthy(last.remote_url)) =>
    LET k == FirstFailure(last.outs)
    IN k # 0 =>
         /\ Len(calls) = k
         /\ \A j \in 1..(k - 1) : calls[j].out.ok
         /\ calls[k].out = last.outs[k]
         /\ calls[k].argv =
              <<"git">> \o PushStepArgs(k, last.remote_url.val)
         /\ Failed
         /\ raised.type = "GitException"
         /\ raised.error_code = PrefixedStepTag(k)
         /\ raised.metadata.args = PushStepArgs(k, last.remote_url.val)
         /\ raised.cause = last.outs[k].err

C6_Witness ==
  /\ last.op = "push"
  /\ Truthy(last.remote_url)
  /\ ~last.outs[1].ok
  /\ last.outs[2].ok
  /\ last.outs[3].ok
  /\ Len(calls) = 1
  /\ raised.error_code = "GIT_REMOTE_REMOVE_FAILED"

\* ---- C7 ----
\* C7: for the two checkout-path operations a single string path p yields
\* the same executor argument vector as the one-element sequence [p], and
\* the paths of a sequence stand after "--" exactly as given: same length,
\* same order, none dropped or duplicated.
C7_PathNormalisation ==
  (last.op \in PathOps) =>
    LET argv == calls[1].argv
        dash == IF last.op = "checkout_path" THEN 3 ELSE 4
    IN /\ Len(calls) = 1
       /\ argv[dash] = "--"
       /\ last.paths.tag = "str" =>
            argv = Apply(Git__init__,
                         [last EXCEPT !.paths = List(<<last.paths.val>>)]
                        ).calls[1].argv
       /\ last.paths.tag = "list" =>
            SubSeq(argv, dash + 1, Len(argv)) = last.paths.val

C7_Witness ==
  /\ last.op = "checkout_path_from_branch"
  /\ last.paths = Str("file2")
  /\ last.branch = "main"
  /\ Argvs = << <<"git", "checkout", "main", "--", "file2">> >>

\* ---- C8 ----
\* C8: a successful status returns the stdout captured by its one invocation
\* unchanged, with and without --porcelain; every other operation returns
\* nothing.
C8_StatusReturnsStdout ==
  Done =>
    /\ (last.op = "status" /\ ~Failed) =>
         /\ Len(calls) = 1
         /\ ret = Str(calls[1].out.stdout)
         /\ ret = Str(last.outs[1].stdout)
    /\ (last.op # "status" \/ Failed) => ret = None

C8_Witness ==
  /\ last.op = "status"
  /\ ~last.porcelain
  /\ calls[1].out = [ok |-> TRUE, stdout |-> " M README.md"]
  /\ ret = Str(" M README.md")

\* ---- C9 ----
\* the remote management steps issued by the last push
RemoteRemoveIssued ==
  \E i \in 1..Len(calls) : Tail(calls[i].argv) = RemoteRemoveArgs
RemoteAddIssued ==
  \E i \in 1..Len(calls) :
    /\ Len(calls[i].argv) = 5
    /\ SubSeq(calls[i].argv, 2, 4) = <<"remote", "add", "origin">>

\* C9 as stated: push issues the remote-remove step (and, once it succeeded,
\* the remote-add step) if and only if remote_url is not None, the empty
\* string included.
C9_OverrideIsNotNone ==
  last.op = "push" =>
    /\ RemoteRemoveIssued <=> last.remote_url # None
    /\ RemoteAddIssued <=> (last.remote_url # None /\ last.outs[1].ok)

\* C9 amended: push issues the remote-remove step (and, once it succeeded,
\* the remote-add step) if and only if remote_url is a non-empty string;
\* for None and for the empty string only the push step is issued.
C9_OverrideIsNonEmpty ==
  last.op = "push" =>
    /\ RemoteRemoveIssued <=> Truthy(last.remote_url)
    /\ RemoteAddIssued <=> (Truthy(last.remote_url) /\ last.outs[1].ok)
    /\ ~Truthy(last.remote_url) => Argvs = << <<"git">> \o PushArgs >>

C9_Witness ==
  /\ last.op = "push"
  /\ last.remote_url = Str("")
  /\ Argvs = << <<"git", "push", "-u", "origin", "HEAD">> >>

\* ---- C10 ----
\* C10: after any history of calls the instance is as constructed, the
\* caller's path object is as it was passed, every operation but push has
\* issued exactly one invocation, and the invocations, the result and the
\* error of the call are those the same call yields on a fresh instance.
C10_HistoryIndependent ==
  /\ self = Git__init__
  /\ Done =>
       LET fresh == Apply(Git__init__, last)
       IN /\ calls = fresh.calls
          /\ ret = fresh.ret
          /\ raised = fresh.exc
          /\ \A i \in 1..Len(calls) :
               /\ calls[i].cwd = last.cwd
               /\ calls[i].out = last.outs[i]
               /\ calls[i].use_shell = FALSE
          /\ last.op # "push" => Len(calls) = 1
          /\ last.op \in PathOps => caller_paths = last.paths

C10_Witness ==
  /\ ncalls >= 2
  /\ last.op = "checkout_path"
  /\ last.paths = List(<<"file2", "file1">>)
  /\ caller_paths = List(<<"file2", "file1">>)
  /\ last.cwd = "/other/repo"
  /\ calls[1].cwd = "/other/repo"
  /\ Failed

====
